---- MODULE Spec2Model ----
(***************************************************************************)
(* A model of autolysis.py: one run of the script, from module import to   *)
(* process exit.  The run's inputs (argv, the AIPROXY_TOKEN variable, the  *)
(* CSV file's bytes, whether the output directory already exists) are      *)
(* drawn in Init; what the environment answers during the run (mkdir, the  *)
(* CSV parser, savefig, the HTTP endpoint, the README write) is drawn by   *)
(* the action that asks.                                                   *)
(***************************************************************************)
EXTENDS Integers, Sequences, FiniteSets, TLC

\* ------------------------------------------------------------------ bounds
MaxLen == 3        \* longest input file, in bytes
MaxCols == 2       \* most columns of a parsed table
MaxArgv == 3       \* longest sys.argv (script name included)

\* The bytes input files are made of: an ASCII letter, a continuation byte
\* that windows-1252 leaves undefined, a 2-byte lead, a 3-byte lead, and a
\* byte that UTF-8 never uses.
Bytes == {65, 129, 195, 226, 255}

RECURSIVE SeqsUpTo(_, _)
SeqsUpTo(S, n) ==
    IF n = 0 THEN {<<>>}
    ELSE LET shorter == SeqsUpTo(S, n - 1)
         IN  shorter \cup {Append(s, x) : s \in {t \in shorter : Len(t) = n - 1}, x \in S}

Range(s) == {s[i] : i \in 1..Len(s)}

\* --------------------------------------------------------------- codecs
\* open(file_path, 'r', encoding=e).read() raises UnicodeDecodeError exactly
\* when the file's bytes are not a text of encoding e.

IsCont(b) == b >= 128 /\ b <= 191

\* The strict UTF-8 decoder, read left to right from position i.
RECURSIVE Utf8From(_, _)
Utf8From(bytes, i) ==
    IF i > Len(bytes) THEN TRUE
    ELSE LET b == bytes[i]
             has(k) == i + k <= Len(bytes)
             c(k) == bytes[i + k]
         IN  IF b < 128 THEN Utf8From(bytes, i + 1)
             ELSE IF b >= 194 /\ b <= 223
                  THEN has(1) /\ IsCont(c(1)) /\ Utf8From(bytes, i + 2)
             ELSE IF b >= 224 /\ b <= 239
                  THEN /\ has(2)
                       /\ IsCont(c(1)) /\ IsCont(c(2))
                       /\ (b = 224 => c(1) >= 160)
                       /\ (b = 237 => c(1) <= 159)
                       /\ Utf8From(bytes, i + 3)
             ELSE IF b >= 240 /\ b <= 244
                  THEN /\ has(3)
                       /\ IsCont(c(1)) /\ IsCont(c(2)) /\ IsCont(c(3))
                       /\ (b = 240 => c(1) >= 144)
                       /\ (b = 244 => c(1) <= 143)
                       /\ Utf8From(bytes, i + 4)
             ELSE FALSE

Utf8Decodes(bytes) == Utf8From(bytes, 1)

\* latin1 and ISO-8859-1 name one codec, which maps every byte.
Latin1Decodes(bytes) == \A i \in 1..Len(bytes) : bytes[i] >= 0 /\ bytes[i] <= 255

\* windows-1252 leaves five bytes undefined.
Cp1252Undefined == {129, 141, 143, 144, 157}
Cp1252Decodes(bytes) == \A i \in 1..Len(bytes) : bytes[i] \notin Cp1252Undefined

Decodes(enc, bytes) ==
    CASE enc = "utf-8" -> Utf8Decodes(bytes)
      [] enc = "latin1" -> Latin1Decodes(bytes)
      [] enc = "ISO-8859-1" -> Latin1Decodes(bytes)
      [] enc = "windows-1252" -> Cp1252Decodes(bytes)

\* ------------------------------------------------------------ load_data
\* The exception of line 36.
CouldNotDecode == "ValueError: Could not decode"

encodingsSwapped == <<"utf-8", "ISO-8859-1", "latin1", "windows-1252">>
encodings == <<"utf-8", "latin1", "ISO-8859-1", "windows-1252">>

\* The for loop of load_data from candidate i on: return on the first
\* decode that succeeds, continue on UnicodeDecodeError, ValueError after
\* the last candidate.
RECURSIVE LoadFrom(_, _)
LoadFrom(i, bytes) ==
    IF i > Len(encodings) THEN CouldNotDecode
    ELSE IF Decodes(encodings[i], bytes) THEN encodings[i]
    ELSE LoadFrom(i + 1, bytes)

\* A loop that keeps going after a success and returns the last candidate
\* that decoded.
RECURSIVE LastFrom(_, _, _)
LastFrom(i, bytes, best) ==
    IF i > Len(encodings) THEN best
    ELSE LastFrom(i + 1, bytes, IF Decodes(encodings[i], bytes) THEN encodings[i] ELSE best)

load_data_last(exists, bytes) ==
    IF ~exists THEN "FileNotFoundError" ELSE LastFrom(1, bytes, CouldNotDecode)

\* load_data(file_path): the encoding, or the exception that escapes.
load_data(exists, bytes) ==
    IF ~exists THEN "FileNotFoundError" ELSE LoadFrom(1, bytes)

IsException(x) == x \in {"FileNotFoundError", CouldNotDecode}

\* --------------------------------------------------------- process state
VARIABLES
    argc,           \* len(sys.argv)
    apiKeySet,      \* AIPROXY_TOKEN is set to a non-empty value
    fileExists,     \* the CSV path names a readable file
    fileBytes,      \* its contents
    dirPre,         \* the output directory existed before the run
    pc,             \* the step the interpreter is about to execute
    dirExists,      \* the output directory exists now
    encoding,       \* main's local `encoding`
    df,             \* the parsed table: the kind of each column
    summary,        \* the summary dict
    image_paths,    \* main's local `image_paths`
    filesWritten,   \* names of the chart files this run saved in output_dir
    insights,       \* main's local `insights`
    readme,         \* README.md as written by this run
    httpRequests,   \* calls of httpx.post so far
    stdout,         \* the messages printed so far
    raised,         \* the exception that ended the run
    exitStatus,     \* the process's exit status
    runs,           \* how many times each function has been entered
    failed          \* the functions whose call failed

env == <<argc, apiKeySet, fileExists, fileBytes, dirPre>>
locals == <<encoding, df, summary, image_paths, insights>>
fs == <<dirExists, filesWritten, readme>>
vars == <<env, pc, locals, fs, httpRequests, stdout, raised, exitStatus, runs, failed>>

Stages == {"create_directory", "load_data", "analyze_dataset",
           "generate_visualizations", "query_llm", "generate_readme"}

None == "None"
Unset == "unset"
NoTable == <<>>
NoSummary == [columns |-> <<>>, dtypes |-> <<>>]
NoReadme == [written |-> FALSE, headings |-> <<>>, columns |-> <<>>,
             missing |-> <<>>, images |-> <<>>, paragraphs |-> <<>>]

Init ==
    /\ argc \in 1..MaxArgv
    /\ apiKeySet \in BOOLEAN
    /\ fileExists \in BOOLEAN
    /\ fileBytes \in (IF fileExists THEN SeqsUpTo(Bytes, MaxLen) ELSE {<<>>})
    /\ dirPre \in BOOLEAN
    /\ pc = "import"
    /\ dirExists = dirPre
    /\ encoding = Unset
    /\ df = NoTable
    /\ summary = NoSummary
    /\ image_paths = <<>>
    /\ filesWritten = {}
    /\ insights = Unset
    /\ readme = NoReadme
    /\ httpRequests = 0
    /\ stdout = {}
    /\ raised = "none"
    /\ exitStatus = -1
    /\ runs = [s \in Stages |-> 0]
    /\ failed = [s \in Stages |-> FALSE]

\* An exception nobody catches: the interpreter prints the traceback and
\* exits with status 1.
Uncaught(exc) ==
    /\ pc' = "exited"
    /\ raised' = exc
    /\ exitStatus' = 1

Enter(stage) == runs' = [runs EXCEPT ![stage] = @ + 1]
Fail(stage) == failed' = [failed EXCEPT ![stage] = TRUE]

\* ------------------------------------------------- module level (12-15)
ModuleInit ==
    /\ pc = "import"
    /\ IF apiKeySet
       THEN /\ pc' = "main"
            /\ UNCHANGED <<raised, exitStatus>>
       ELSE Uncaught("EnvironmentError")
    /\ UNCHANGED <<env, locals, fs, httpRequests, stdout, runs, failed>>

\* --------------------------------------------------------- main (150-152)
ArgsOkAtLeast(n) == n >= 2
ArgsOk(n) == n = 2

MainArgs ==
    /\ pc = "main"
    /\ IF ArgsOk(argc)
       THEN /\ pc' = "create_directory"
            /\ UNCHANGED <<stdout, raised, exitStatus>>
       ELSE /\ stdout' = stdout \cup {"Usage: python autolysis.py <csv_file>"}
            /\ pc' = "exited"
            /\ exitStatus' = 1
            /\ UNCHANGED raised
    /\ UNCHANGED <<env, locals, fs, httpRequests, runs, failed>>

\* ------------------------------------------------ create_directory (38-46)
\* mkdir(parents=True, exist_ok=True): nothing to do when the directory is
\* there, otherwise the directory is made when the OS allows it (granted)
\* and OSError is raised when it does not.
create_directory_noop(exists, granted) == [exists |-> exists, raised |-> "none"]
create_directory(exists, granted) ==
    IF exists \/ granted
    THEN [exists |-> TRUE, raised |-> "none"]
    ELSE [exists |-> FALSE, raised |-> "OSError"]

CreateDirectory ==
    /\ pc = "create_directory"
    /\ Enter("create_directory")
    /\ \E granted \in BOOLEAN :
         LET r == create_directory(dirExists, granted)
         IN  /\ dirExists' = r.exists
             /\ IF r.raised = "none"
                THEN /\ pc' = "load_data"
                     /\ UNCHANGED <<raised, exitStatus, failed>>
                ELSE /\ Uncaught(r.raised)
                     /\ Fail("create_directory")
    /\ UNCHANGED <<env, locals, filesWritten, readme, httpRequests, stdout>>

\* ------------------------------------------------------- main line 162
LoadData ==
    /\ pc = "load_data"
    /\ Enter("load_data")
    /\ LET r == load_data(fileExists, fileBytes)
       IN  IF IsException(r)
           THEN /\ Uncaught(r)
                /\ Fail("load_data")
                /\ UNCHANGED encoding
           ELSE /\ encoding' = r
                /\ pc' = "analyze_dataset"
                /\ UNCHANGED <<raised, exitStatus, failed>>
    /\ UNCHANGED <<env, df, summary, image_paths, insights, fs, httpRequests, stdout>>

\* ------------------------------------------------- analyze_dataset (59-67)
ColumnKinds == {"num", "text"}
Tables == SeqsUpTo(ColumnKinds, MaxCols) \ {<<>>}

ParseOutcomes ==
    {[raised |-> "none", table |-> t] : t \in Tables}
        \cup {[raised |-> "ParserError", table |-> NoTable]}

\* pd.read_csv(file_path, encoding=encoding): EmptyDataError on a file with
\* nothing in it, otherwise what the parser makes of the text (a table, or
\* ParserError).
read_csv(bytes, parsed) ==
    IF bytes = <<>> THEN [raised |-> "EmptyDataError", table |-> NoTable] ELSE parsed

Summarize(table) ==
    [columns |-> [i \in 1..Len(table) |-> i], dtypes |-> table]

AnalyzeDataset ==
    /\ pc = "analyze_dataset"
    /\ runs' = [runs EXCEPT !["analyze_dataset"] = @ + 1, !["load_data"] = @ + 1]
    /\ LET enc == load_data(fileExists, fileBytes)
       IN  IF IsException(enc)
           THEN /\ Uncaught(enc)
                /\ failed' = [failed EXCEPT !["analyze_dataset"] = TRUE, !["load_data"] = TRUE]
                /\ UNCHANGED <<df, summary>>
           ELSE \E parsed \in ParseOutcomes :
                  LET r == read_csv(fileBytes, parsed)
                  IN  IF r.raised # "none"
                      THEN /\ Uncaught(r.raised)
                           /\ Fail("analyze_dataset")
                           /\ UNCHANGED <<df, summary>>
                      ELSE /\ df' = r.table
                           /\ summary' = Summarize(r.table)
                           /\ pc' = "generate_visualizations"
                           /\ UNCHANGED <<raised, exitStatus, failed>>
    /\ UNCHANGED <<env, encoding, image_paths, insights, fs, httpRequests, stdout>>

\* ----------------------------------------- generate_visualizations (81-93)
NumericCols(table) == Cardinality({i \in 1..Len(table) : table[i] = "num"})

HeatmapName == "correlation_heatmap.png"
PathIn(name) == [dir |-> "output_dir", name |-> name]

\* df.corr(numeric_only=True) of a table without numeric columns is an empty
\* frame, and sns.heatmap raises ValueError on it (the colour limits are the
\* minimum and maximum of a zero-size array).
heatmap(table) == IF NumericCols(table) = 0 THEN "ValueError" ELSE "none"

\* plt.savefig(heatmap_path) needs the directory and the OS's consent.
savefig(exists, granted) ==
    IF ~exists THEN "FileNotFoundError" ELSE IF ~granted THEN "OSError" ELSE "none"

GenerateVisualizations ==
    /\ pc = "generate_visualizations"
    /\ Enter("generate_visualizations")
    /\ \E granted \in BOOLEAN :
         LET h == heatmap(df)
             w == IF h = "none" THEN savefig(dirExists, granted) ELSE h
         IN  IF w = "none"
             THEN /\ filesWritten' = filesWritten \cup {HeatmapName}
                  /\ image_paths' = <<PathIn(HeatmapName)>>
                  /\ pc' = "query_llm"
                  /\ UNCHANGED <<raised, exitStatus, failed>>
             ELSE /\ Uncaught(w)
                  /\ Fail("generate_visualizations")
                  /\ UNCHANGED <<filesWritten, image_paths>>
    /\ UNCHANGED <<env, encoding, df, summary, insights, dirExists, readme,
                   httpRequests, stdout>>

\* ------------------------------------------------------ query_llm (128-147)
Fallback == "Narrative generation failed due to an error."
Completion == "completion text"

\* What the endpoint can answer to the one POST.
Outcomes == {"ok", "null_content", "timeout", "connect_error", "status_404",
             "status_500", "not_json", "no_choices", "empty_choices", "no_content"}

\* The exception the try block raises (138-140): httpx.post on a transport
\* failure, raise_for_status on an error status, response.json() on a body
\* that is not JSON, the subscripts on a body without the completion.
TryBlock(outcome) ==
    CASE outcome \in {"timeout", "connect_error"} -> "RequestError"
      [] outcome \in {"status_404", "status_500"} -> "HTTPStatusError"
      [] outcome = "not_json" -> "JSONDecodeError"
      [] outcome \in {"no_choices", "no_content"} -> "KeyError"
      [] outcome = "empty_choices" -> "IndexError"
      [] OTHER -> "none"

\* The except clauses (141-146), in order; the last one takes every Exception.
HandlerNoGeneric(exc) ==
    CASE exc = "HTTPStatusError" -> "HTTP error occurred"
      [] exc = "RequestError" -> "Request error occurred"
      [] OTHER -> "uncaught"
Handler(exc) ==
    CASE exc = "HTTPStatusError" -> "HTTP error occurred"
      [] exc = "RequestError" -> "Request error occurred"
      [] OTHER -> "An unexpected error occurred"

\* Calls of httpx.post in one call of query_llm.
PostsRetry(outcome) == IF TryBlock(outcome) = "none" THEN 1 ELSE 2
Posts(outcome) == 1

\* query_llm(summary) against an endpoint that answers `outcome`.
query_llm(outcome) ==
    LET exc == TryBlock(outcome)
    IN  IF exc = "none"
        THEN [value |-> IF outcome = "null_content" THEN None ELSE Completion,
              log |-> "none", raised |-> "none"]
        ELSE IF Handler(exc) = "uncaught"
        THEN [value |-> Unset, log |-> "none", raised |-> exc]
        ELSE [value |-> Fallback, log |-> Handler(exc), raised |-> "none"]

NarratorFailure == {o \in Outcomes : TryBlock(o) # "none"}

QueryLlm ==
    /\ pc = "query_llm"
    /\ Enter("query_llm")
    /\ \E outcome \in Outcomes :
         LET r == query_llm(outcome)
         IN  /\ httpRequests' = httpRequests + Posts(outcome)
             /\ failed' = [failed EXCEPT !["query_llm"] = outcome \in NarratorFailure]
             /\ stdout' = IF r.log = "none" THEN stdout ELSE stdout \cup {r.log}
             /\ IF r.raised = "none"
                THEN /\ insights' = r.value
                     /\ pc' = "generate_readme"
                     /\ UNCHANGED <<raised, exitStatus>>
                ELSE /\ Uncaught(r.raised)
                     /\ UNCHANGED insights
    /\ UNCHANGED <<env, encoding, df, summary, image_paths, fs>>

\* ------------------------------------------------- generate_readme (105-115)
\* The name each image is referred to by: image_path.name.
ImageRefsNone(paths) == <<>>
ImageRefs(paths) == [i \in 1..Len(paths) |-> paths[i].name]

\* What generate_readme(summary, image_paths, output_dir) writes.
Report(sum, paths) ==
    [written |-> TRUE,
     headings |-> <<"# Automated Analysis", "## Summary", "### Columns:",
                    "### Missing Values:", "### Visualizations">>,
     columns |-> sum.columns,
     missing |-> sum.columns,
     images |-> ImageRefs(paths),
     paragraphs |-> <<>>]

\* open(readme_path, "w") needs the directory and the OS's consent.
open_w(exists, granted) ==
    IF ~exists THEN "FileNotFoundError" ELSE IF ~granted THEN "OSError" ELSE "none"

GenerateReadme ==
    /\ pc = "generate_readme"
    /\ Enter("generate_readme")
    /\ \E granted \in BOOLEAN :
         LET w == open_w(dirExists, granted)
         IN  IF w = "none"
             THEN /\ readme' = Report(summary, image_paths)
                  /\ stdout' = stdout \cup {"Analysis complete."}
                  /\ pc' = "done"
                  /\ exitStatus' = 0
                  /\ UNCHANGED <<raised, failed>>
             ELSE /\ Uncaught(w)
                  /\ Fail("generate_readme")
                  /\ UNCHANGED <<readme, stdout>>
    /\ UNCHANGED <<env, locals, dirExists, filesWritten, httpRequests>>

\* ------------------------------------------------------------------ the run
Next ==
    \/ ModuleInit
    \/ MainArgs
    \/ CreateDirectory
    \/ LoadData
    \/ AnalyzeDataset
    \/ GenerateVisualizations
    \/ QueryLlm
    \/ GenerateReadme

Spec == Init /\ [][Next]_vars

\* ================================================================ properties
Usage == "Usage: python autolysis.py <csv_file>"
NarratorExceptions == {"RequestError", "HTTPStatusError", "JSONDecodeError",
                       "KeyError", "IndexError"}
Ended == pc \in {"done", "exited"}
NoStageRan ==
    /\ \A s \in Stages : runs[s] = 0
    /\ dirExists = dirPre
    /\ filesWritten = {}
    /\ ~readme.written
    /\ httpRequests = 0

\* C1: when the Narrator's request fails (transport error, timeout, error
\* status, body that is not the expected JSON), query_llm returns the fixed
\* fallback string, none of its exceptions escapes, and the run goes on to
\* generate_readme; the run then ends with status 0 and README.md written
\* (the only thing that can still end it is the README write itself being
\* refused by the filesystem).
C1_NarratorFailureFallsBack ==
    failed["query_llm"] =>
        /\ insights = Fallback
        /\ raised \notin NarratorExceptions
        /\ pc \in {"generate_readme", "done", "exited"}
        /\ (pc = "exited" => failed["generate_readme"] /\ raised \in {"OSError", "FileNotFoundError"})
        /\ (pc = "done" => readme.written /\ exitStatus = 0)

C1_Witness ==
    /\ failed["query_llm"]
    /\ insights = Fallback
    /\ "An unexpected error occurred" \in stdout
    /\ pc = "done"
    /\ readme.written

\* C2: every README.md that is written contains the narrative text that
\* query_llm returned.
C2_ReportHoldsNarrative ==
    readme.written => insights \in Range(readme.paragraphs)

\* C3: load_data returns the first of utf-8, latin1, ISO-8859-1,
\* windows-1252 (in that order) that decodes the whole file, every earlier
\* candidate having failed, and raises ValueError exactly when none of the
\* four decodes it.
C3_FirstDecodingCandidate ==
    (fileExists /\ runs["load_data"] > 0) =>
        LET r == IF failed["load_data"] THEN raised ELSE encoding
            u == Decodes("utf-8", fileBytes)
            l == Decodes("latin1", fileBytes)
            i == Decodes("ISO-8859-1", fileBytes)
            w == Decodes("windows-1252", fileBytes)
        IN  /\ (r = "utf-8") <=> u
            /\ (r = "latin1") <=> (~u /\ l)
            /\ (r = "ISO-8859-1") <=> (~u /\ ~l /\ i)
            /\ (r = "windows-1252") <=> (~u /\ ~l /\ ~i /\ w)
            /\ (r = CouldNotDecode) <=> (~u /\ ~l /\ ~i /\ ~w)

C3_Witness ==
    /\ pc = "analyze_dataset"
    /\ encoding = "latin1"
    /\ ~Decodes("utf-8", fileBytes)
    /\ Len(fileBytes) = 3

\* C4: in a run that writes README.md, the images the report refers to are
\* exactly the paths generate_visualizations returned, and each of them was
\* saved in the output directory by this run.
C4_ReportRefersToWrittenImages ==
    readme.written =>
        /\ {PathIn(n) : n \in Range(readme.images)} = Range(image_paths)
        /\ Len(readme.images) = Len(image_paths)
        /\ Range(readme.images) \subseteq filesWritten
        /\ dirExists

C4_Witness ==
    /\ readme.written
    /\ readme.images = <<HeatmapName>>
    /\ HeatmapName \in filesWritten

LoadAborted == pc = "exited" /\ (failed["load_data"] \/ failed["analyze_dataset"])

\* C5: when decoding or loading fails, the run has created no output
\* directory, no chart image and no README.md.
C5_NoOutputAtLoadAbort ==
    LoadAborted => (dirExists = dirPre /\ filesWritten = {} /\ ~readme.written)

\* What is left behind when decoding or loading fails: no chart image, no
\* README.md, no request sent, and the output directory, which
\* create_directory made before load_data ran.
OnlyDirectoryAtLoadAbort ==
    LoadAborted =>
        /\ filesWritten = {}
        /\ ~readme.written
        /\ httpRequests = 0
        /\ dirExists
        /\ runs["create_directory"] = 1

EmptyDirectoryLeftBehind ==
    /\ LoadAborted
    /\ raised = "EmptyDataError"
    /\ ~dirPre
    /\ dirExists

\* C6: for a table without numeric columns generate_visualizations returns
\* normally, without the correlation heatmap in its result, and the run
\* reaches query_llm and generate_readme.
C6_NoNumericColumnsNoCrash ==
    (runs["generate_visualizations"] > 0 /\ NumericCols(df) = 0) =>
        /\ ~failed["generate_visualizations"]
        /\ PathIn(HeatmapName) \notin Range(image_paths)
        /\ pc \in {"query_llm", "generate_readme", "done"}

\* C7 as stated: started with a number of arguments other than one, the
\* program prints the usage message and exits with a non-zero status, and no
\* stage runs, whether or not the credential variable is set.
C7_UsageOnWrongArguments ==
    argc # 2 =>
        /\ NoStageRan
        /\ (Ended => Usage \in stdout /\ exitStatus # 0)

\* C7 as amended: started with a number of arguments other than one, the
\* program exits with a non-zero status and no stage runs; it prints the
\* usage message when the credential variable is set, and when it is unset
\* the run ends at import with EnvironmentError, before the argument check.
C7_WrongArgumentsExit ==
    argc # 2 =>
        /\ NoStageRan
        /\ pc \in {"import", "main", "exited"}
        /\ (Ended => exitStatus = 1)
        /\ (Ended /\ apiKeySet => Usage \in stdout /\ raised = "none")
        /\ (Ended /\ ~apiKeySet => Usage \notin stdout /\ raised = "EnvironmentError")

C7_Witness ==
    /\ argc = 3
    /\ pc = "exited"
    /\ Usage \in stdout
    /\ exitStatus = 1

\* C8: the output directory exists whenever a chart or README.md is about to
\* be written or has been written: create_directory has run, once, before
\* the first stage that writes.
C8_DirectoryBeforeArtifacts ==
    (\/ pc \in {"generate_visualizations", "query_llm", "generate_readme", "done"}
     \/ filesWritten # {}
     \/ readme.written) =>
        /\ dirExists
        /\ runs["create_directory"] = 1

C8_Witness ==
    /\ ~dirPre
    /\ dirExists
    /\ filesWritten = {HeatmapName}
    /\ pc = "query_llm"

\* C9: nothing is retried: at most one POST is sent in a run, a function
\* whose call failed is not entered again, and no function is entered more
\* often than main's straight line calls it (load_data twice, from main and
\* from analyze_dataset; every other function once).
C9_NoRetries ==
    [][/\ httpRequests' <= 1
       /\ \A s \in Stages : failed[s] => runs'[s] = runs[s]
       /\ \A s \in Stages : runs'[s] <= (IF s = "load_data" THEN 2 ELSE 1)]_vars

C9_Witness ==
    /\ failed["query_llm"]
    /\ httpRequests = 1
    /\ runs["query_llm"] = 1
    /\ Ended

\* C10: on a file that can be opened load_data returns utf-8 or latin1 and
\* nothing else: ISO-8859-1 and windows-1252 are never returned and the
\* ValueError is never raised.
C10_OnlyUtf8OrLatin1 ==
    (fileExists /\ runs["load_data"] > 0) =>
        /\ encoding \in {"utf-8", "latin1"}
        /\ ~failed["load_data"]
        /\ raised # CouldNotDecode

C10_Witness ==
    /\ encoding = "latin1"
    /\ \E k \in 1..Len(fileBytes) : fileBytes[k] \in Cp1252Undefined
    /\ runs["load_data"] = 2

====
